---- MODULE Spec2Model ----
(***************************************************************************)
(* The scheduler of packages/scheduler/src/Scheduler.ts (the last, complete *)
(* snapshot of the file, lines 178-503): scheduleCallback, cancelCallback,  *)
(* the message-channel work loop (performWorkUntilDeadline, flushWork,      *)
(* workLoop), the delayed-task timer (requestHostTimeout, handleTimeout,    *)
(* advanceTimers) and shouldYieldToHost.                                    *)
(*                                                                         *)
(* JavaScript is single threaded: a host callback (a port message, a timer) *)
(* runs to completion before the next one starts.  The only code that runs  *)
(* in the middle of a handler is a task body, which may call back into the  *)
(* scheduler; so the work loop is cut at each body invocation (pc =         *)
(* "inBody") and nowhere else.  The clock advances between handlers and     *)
(* while a body runs; scheduler code between two clock-advancing points     *)
(* reads one clock value.                                                   *)
(***************************************************************************)
EXTENDS Integers, Sequences, FiniteSets, TLC

\* ---------------------------------------------------------------- bounds
MaxTasks == 2
MaxReadyTasks == 3
MaxTicks == 2
MaxConts == 1

\* ------------------------------------------------------------- constants
NULL == -1

\* SchedulerPriorities: an enumeration; only the identity of a level is used.
NoPriority == "NoPriority"
ImmediatePriority == "ImmediatePriority"
UserBlockingPriority == "UserBlockingPriority"
NormalPriority == "NormalPriority"
LowPriority == "LowPriority"
IdlePriority == "IdlePriority"

\* SchedulerFeatureFlags: the timeouts, in milliseconds, ordered
\* immediate (-1) < user-blocking < normal < low << idle.
userBlockingPriorityTimeout == 250
normalPriorityTimeout == 5000
lowPriorityTimeout == 10000
maxSigned31BitInt == 1073741823

frameInterval == 5

\* The inputs the environment draws from: the priority and the delay of a
\* scheduleCallback call, and the amounts by which the clock moves on (2 ms
\* stays inside a frame, 5000 ms passes the deadline of a Normal task).
PriorityInputs == {ImmediatePriority, NormalPriority, IdlePriority}
DelayInputs == {0, 2, 4}
TickSteps == {2, 5000}

VARIABLES
  now,                      \* getCurrentTime()
  tasks,                    \* id -> Task record (the objects the queues hold)
  taskQueue,                \* ids, in heap order
  timerQueue,               \* ids, in heap order
  taskIdCounter,
  currentTask,
  currentPriorityLevel,
  startTime,                \* the module-level slice start
  isPerformingWork,
  isHostCallbackScheduled,
  isMessageLoopRunning,
  isHostTimeoutScheduled,
  taskTimeoutID,
  portMessages,             \* messages posted to the channel, not yet delivered
  hostTimers,               \* outstanding setTimeout timers: [handle, due]
  pc,                       \* "idle" | "inBody"
  currentTime,              \* workLoop's local
  previousPriorityLevel,    \* flushWork's local
  sliceStartTime,           \* performWorkUntilDeadline's local startTime
  didUserCallbackTimeout,   \* the argument of the running body
  callback,                 \* workLoop's local: the function being invoked
  \* history
  ticks, contCount,
  runLog,                   \* ids invoked since the last admission to taskQueue
  cancelReq,                \* queued ids a caller asked to cancel while they were not running
  cancelThrew,              \* the last step was a cancelCallback call that raised
  promotions,               \* id -> times advanceTimers moved it
  advancedAt,               \* argument of the last step's last advanceTimers; -1 when it made no call
  lastExit,                 \* how the last slice ended; "throw": the body's error left the entry point
  sliceInvoked,             \* bodies invoked by the current (or last) slice
  op                        \* the call the last step made: its name and, for cancelCallback, the task meant

vars == <<now, tasks, taskQueue, timerQueue, taskIdCounter, currentTask,
          currentPriorityLevel, startTime, isPerformingWork,
          isHostCallbackScheduled, isMessageLoopRunning, isHostTimeoutScheduled,
          taskTimeoutID, portMessages, hostTimers, pc, currentTime,
          previousPriorityLevel, sliceStartTime, didUserCallbackTimeout,
          callback, ticks, contCount, runLog, cancelReq, cancelThrew,
          promotions, advancedAt, lastExit, sliceInvoked, op>>

\* ------------------------------------------------------------ min-heap
\* SchedulerMinHeap: an ordered container keyed by (sortIndex, id).
compare(ts, a, b) ==
  \/ ts[a].sortIndex < ts[b].sortIndex
  \/ ts[a].sortIndex = ts[b].sortIndex /\ a < b

peek(q) == IF q = <<>> THEN NULL ELSE Head(q)

pop(q) == IF q = <<>> THEN q ELSE Tail(q)

push(q, id, ts) ==
  LET k == Cardinality({i \in 1..Len(q) : ~compare(ts, id, q[i])})
  IN SubSeq(q, 1, k) \o <<id>> \o SubSeq(q, k + 1, Len(q))

Members(q) == {q[i] : i \in 1..Len(q)}

\* ------------------------------------------------------------ scheduler
getTimeoutForPriority(priorityLevel) ==
  CASE priorityLevel = ImmediatePriority -> -1
    [] priorityLevel = UserBlockingPriority -> userBlockingPriorityTimeout
    [] priorityLevel = NormalPriority -> normalPriorityTimeout
    [] priorityLevel = LowPriority -> lowPriorityTimeout
    [] priorityLevel = IdlePriority -> maxSigned31BitInt
    [] OTHER -> 1000

\* The scheduler's mutable state as one record, so that the functions below
\* can be composed the way the code calls them.
S == [tasks |-> tasks, taskQueue |-> taskQueue, timerQueue |-> timerQueue,
      taskIdCounter |-> taskIdCounter, currentTask |-> currentTask,
      currentPriorityLevel |-> currentPriorityLevel,
      isPerformingWork |-> isPerformingWork,
      isHostCallbackScheduled |-> isHostCallbackScheduled,
      isMessageLoopRunning |-> isMessageLoopRunning,
      isHostTimeoutScheduled |-> isHostTimeoutScheduled,
      taskTimeoutID |-> taskTimeoutID, portMessages |-> portMessages,
      hostTimers |-> hostTimers, currentTime |-> currentTime,
      previousPriorityLevel |-> previousPriorityLevel,
      didUserCallbackTimeout |-> didUserCallbackTimeout,
      callback |-> callback, sliceStartTime |-> sliceStartTime,
      promotions |-> promotions, advancedAt |-> -1,
      exit |-> "none"]

Set(s) ==
  /\ tasks' = s.tasks
  /\ taskQueue' = s.taskQueue
  /\ timerQueue' = s.timerQueue
  /\ taskIdCounter' = s.taskIdCounter
  /\ currentTask' = s.currentTask
  /\ currentPriorityLevel' = s.currentPriorityLevel
  /\ isPerformingWork' = s.isPerformingWork
  /\ isHostCallbackScheduled' = s.isHostCallbackScheduled
  /\ isMessageLoopRunning' = s.isMessageLoopRunning
  /\ isHostTimeoutScheduled' = s.isHostTimeoutScheduled
  /\ taskTimeoutID' = s.taskTimeoutID
  /\ portMessages' = s.portMessages
  /\ hostTimers' = s.hostTimers
  /\ currentTime' = s.currentTime
  /\ previousPriorityLevel' = s.previousPriorityLevel
  /\ didUserCallbackTimeout' = s.didUserCallbackTimeout
  /\ callback' = s.callback
  /\ sliceStartTime' = s.sliceStartTime
  /\ promotions' = s.promotions
  /\ advancedAt' = s.advancedAt

schedulePerformWorkUntilDeadline(s) ==
  [s EXCEPT !.portMessages = @ + 1]

\* Mutant: a message is posted whether or not the message loop is running.
requestHostCallback_NoGuard(s) ==
  schedulePerformWorkUntilDeadline([s EXCEPT !.isMessageLoopRunning = TRUE])

requestHostCallback(s) ==
  IF ~s.isMessageLoopRunning
  THEN schedulePerformWorkUntilDeadline([s EXCEPT !.isMessageLoopRunning = TRUE])
  ELSE s

\* clearTimeout(taskTimeoutID); taskTimeoutID = -1
cancelHostTimeout(s) ==
  [s EXCEPT !.hostTimers = {t \in @ : t.handle # s.taskTimeoutID},
            !.taskTimeoutID = -1]

\* setTimeout returns a handle no outstanding timer has; the scheduler keeps only
\* the last one, in taskTimeoutID.
FreshHandle(s) ==
  CHOOSE h \in 1..(Cardinality(s.hostTimers) + 2) :
    /\ h # s.taskTimeoutID
    /\ \A t \in s.hostTimers : t.handle # h

\* taskTimeoutID = setTimeout(() => callback(getCurrentTime()), ms)
requestHostTimeout(s, ms) ==
  LET h == FreshHandle(s)
  IN [s EXCEPT !.hostTimers = @ \cup {[handle |-> h,
                                       due |-> now + (IF ms > 0 THEN ms ELSE 0)]},
               !.taskTimeoutID = h]

\* Mutant: a timer counts as started whatever the time.
timerHasStarted_Always(timer, ct) == TRUE

\* timer.startTime <= currentTime (line 451)
timerHasStarted(timer, ct) == timer.startTime <= ct

RECURSIVE advanceTimers(_, _)
advanceTimers(s, ct) ==
  LET timer == peek(s.timerQueue)
      s0 == [s EXCEPT !.advancedAt = ct]
  IN IF timer = NULL THEN s0
     ELSE IF s.tasks[timer].callback = "null"
     THEN advanceTimers([s0 EXCEPT !.timerQueue = pop(@)], ct)
     ELSE IF timerHasStarted(s.tasks[timer], ct)
     THEN LET ts == [s.tasks EXCEPT ![timer].sortIndex = s.tasks[timer].expirationTime]
          IN advanceTimers([s0 EXCEPT !.timerQueue = pop(@),
                                      !.tasks = ts,
                                      !.taskQueue = push(@, timer, ts),
                                      !.promotions[timer] = @ + 1], ct)
     ELSE s0

shouldYieldToHost ==
  LET timeElapsed == now - startTime
  IN IF timeElapsed < frameInterval THEN FALSE ELSE TRUE

\* The end of workLoop, after the while loop (lines 419-428).
workLoopExit(s) ==
  IF s.currentTask # NULL
  THEN [s EXCEPT !.exit = "more"]
  ELSE LET firstTimer == peek(s.timerQueue)
       IN IF firstTimer # NULL
          THEN [requestHostTimeout(s, s.tasks[firstTimer].startTime - s.currentTime)
                  EXCEPT !.exit = "done"]
          ELSE [s EXCEPT !.exit = "done"]

\* The while loop of workLoop from its condition, up to the next body
\* invocation (exit = "invoke") or the end of the function.
RECURSIVE workLoopFrom(_)
workLoopFrom(s) ==
  LET t == s.currentTask
  IN IF t = NULL THEN workLoopExit(s)
     ELSE IF s.tasks[t].expirationTime > s.currentTime /\ shouldYieldToHost
     THEN workLoopExit(s)
     ELSE IF s.tasks[t].callback # "null"
     THEN [s EXCEPT !.callback = s.tasks[t].callback,
                    !.tasks[t].callback = "null",
                    !.currentPriorityLevel = s.tasks[t].priorityLevel,
                    !.didUserCallbackTimeout =
                        (s.tasks[t].expirationTime <= s.currentTime),
                    !.currentTime = now,
                    !.exit = "invoke"]
     ELSE LET q == pop(s.taskQueue)
          IN workLoopFrom([s EXCEPT !.taskQueue = q, !.currentTask = peek(q)])

\* Mutant: the loop starts without promoting.
workLoop_NoAdvance(s, initialTime) ==
  LET s1 == [s EXCEPT !.currentTime = initialTime]
  IN workLoopFrom([s1 EXCEPT !.currentTask = peek(s1.taskQueue)])

\* workLoop(initialTime) up to the first body invocation.
workLoop(s, initialTime) ==
  LET s1 == advanceTimers([s EXCEPT !.currentTime = initialTime], initialTime)
  IN workLoopFrom([s1 EXCEPT !.currentTask = peek(s1.taskQueue)])

\* Mutant: the task is pushed again with its continuation.
workLoopContinuation_Requeue(s) ==
  LET s1 == [s EXCEPT !.tasks[s.currentTask].callback = "cont",
                      !.taskQueue = push(@, s.currentTask, s.tasks)]
  IN [advanceTimers(s1, s.currentTime) EXCEPT !.exit = "cont"]

\* workLoop from the return of a body with a continuation (lines 401-404).
workLoopContinuation(s) ==
  LET s1 == [s EXCEPT !.tasks[s.currentTask].callback = "cont"]
  IN [advanceTimers(s1, s.currentTime) EXCEPT !.exit = "cont"]

\* workLoop from the return of a body without a continuation (lines 405-416).
workLoopReturned(s) ==
  LET s1 == IF s.currentTask = peek(s.taskQueue)
            THEN [s EXCEPT !.taskQueue = pop(@)]
            ELSE s
      s2 == advanceTimers(s1, s.currentTime)
  IN workLoopFrom([s2 EXCEPT !.currentTask = peek(s2.taskQueue)])

\* flushWork up to the call of workLoop (lines 351-354).
flushWorkEnter(s) ==
  [s EXCEPT !.isHostCallbackScheduled = FALSE,
            !.isPerformingWork = TRUE,
            !.previousPriorityLevel = s.currentPriorityLevel]

\* Mutant: the cleanup is skipped.
flushWorkFinally_Skipped(s) == s

\* Mutant: the priority level of the last task is left in place.
flushWorkFinally_KeepPriority(s) ==
  [s EXCEPT !.currentTask = NULL, !.isPerformingWork = FALSE]

\* flushWork's finally block (lines 357-361).
flushWorkFinally(s) ==
  [s EXCEPT !.currentTask = NULL,
            !.currentPriorityLevel = s.previousPriorityLevel,
            !.isPerformingWork = FALSE]

\* Mutant: hasMoreWork starts out false, so a throwing flushWork stops the
\* message loop.
performWorkFinally_ThrowStops(s) ==
  LET hasMoreWork == s.exit \in {"more", "cont"}
  IN IF hasMoreWork
     THEN schedulePerformWorkUntilDeadline(s)
     ELSE [s EXCEPT !.isMessageLoopRunning = FALSE]

\* performWorkUntilDeadline's finally block (lines 332-338); hasMoreWork keeps
\* its initial value, true, when flushWork throws.
performWorkFinally(s) ==
  LET hasMoreWork == s.exit \in {"more", "cont", "throw"}
  IN IF hasMoreWork
     THEN schedulePerformWorkUntilDeadline(s)
     ELSE [s EXCEPT !.isMessageLoopRunning = FALSE]

\* The locals of performWorkUntilDeadline, flushWork and workLoop exist only
\* while the functions run.
DropLocals(s) ==
  [s EXCEPT !.currentTime = -1, !.previousPriorityLevel = NoPriority,
            !.didUserCallbackTimeout = FALSE, !.callback = "null",
            !.sliceStartTime = -1]

\* The end of a slice: both finally blocks, innermost first.
EndSlice(s) == DropLocals(performWorkFinally(flushWorkFinally(s)))

\* Mutant: every new task is keyed by its start time.
newTaskSortIndex_StartTime(st, ct, expirationTime) == st

\* Mutant: every new task is keyed by its expiration time.
newTaskSortIndex_Expiration(st, ct, expirationTime) == expirationTime

\* newTask.sortIndex (lines 290-307): the start time of a delayed task, the
\* expiration time of a ready one.
newTaskSortIndex(st, ct, expirationTime) ==
  IF st > ct THEN st ELSE expirationTime

scheduleCallback(s, priorityLevel, delay) ==
  LET ct == now
      st == IF delay > 0 THEN ct + delay ELSE ct
      timeout == getTimeoutForPriority(priorityLevel)
      expirationTime == st + timeout
      id == s.taskIdCounter
      sortIndex == newTaskSortIndex(st, ct, expirationTime)
      newTask == [callback |-> "fn", priorityLevel |-> priorityLevel,
                  startTime |-> st, expirationTime |-> expirationTime,
                  sortIndex |-> sortIndex]
      ts == [i \in 0..id |-> IF i = id THEN newTask ELSE s.tasks[i]]
      s1 == [s EXCEPT !.taskIdCounter = id + 1, !.tasks = ts,
                      !.promotions = [i \in 0..id |-> IF i = id THEN 0 ELSE @[i]]]
  IN IF st > ct
     THEN LET s2 == [s1 EXCEPT !.timerQueue = push(@, id, ts)]
          IN IF peek(s2.taskQueue) = NULL /\ id = peek(s2.timerQueue)
             THEN LET s3 == IF s2.isHostTimeoutScheduled
                            THEN cancelHostTimeout(s2)
                            ELSE [s2 EXCEPT !.isHostTimeoutScheduled = TRUE]
                  IN requestHostTimeout(s3, st - ct)
             ELSE s2
     ELSE LET s2 == [s1 EXCEPT !.taskQueue = push(@, id, ts)]
          IN IF ~s2.isHostCallbackScheduled /\ ~s2.isPerformingWork
             THEN requestHostCallback([s2 EXCEPT !.isHostCallbackScheduled = TRUE])
             ELSE s2

\* Mutant: the head of the ready queue is tombstoned.
cancelCallback_Head(s) ==
  [s EXCEPT !.tasks[peek(s.taskQueue)].callback = "null"]

\* currentTask!.callback = null
cancelCallback(s) ==
  [s EXCEPT !.tasks[s.currentTask].callback = "null"]

handleTimeout(s, ct) ==
  LET s1 == advanceTimers([s EXCEPT !.isHostTimeoutScheduled = FALSE], ct)
  IN IF ~s1.isHostCallbackScheduled
     THEN IF peek(s1.taskQueue) # NULL
          THEN requestHostCallback([s1 EXCEPT !.isHostCallbackScheduled = TRUE])
          ELSE LET firstTimer == peek(s1.timerQueue)
               IN IF firstTimer # NULL
                  THEN requestHostTimeout(s1, s1.tasks[firstTimer].startTime - ct)
                  ELSE s1
     ELSE s1

getCurrentPriorityLevel == currentPriorityLevel

\* ------------------------------------------------------------- history
\* The call a step makes.
Op(name, target) == [name |-> name, target |-> target]

Admitted(s) == Members(s.taskQueue) \ Members(taskQueue) # {}

\* The ids of a set that are still in a queue.
Queued(s, ids) == ids \cap (Members(s.taskQueue) \cup Members(s.timerQueue))

\* What a step of the work loop that ended in state s adds to the history.
LoopHistory(s, invokedBefore) ==
  /\ runLog' = IF s.exit = "invoke"
               THEN (IF Admitted(s) THEN <<>> ELSE runLog) \o <<s.currentTask>>
               ELSE IF Admitted(s) THEN <<>> ELSE runLog
  /\ cancelReq' = Queued(s, cancelReq)
  /\ lastExit' = IF s.exit = "invoke" THEN lastExit ELSE s.exit
  /\ sliceInvoked' = invokedBefore + (IF s.exit = "invoke" THEN 1 ELSE 0)

\* ------------------------------------------------------------- actions
Init ==
  /\ now = 0
  /\ tasks = <<>>
  /\ taskQueue = <<>>
  /\ timerQueue = <<>>
  /\ taskIdCounter = 0
  /\ currentTask = NULL
  /\ currentPriorityLevel = NoPriority
  /\ startTime = -1
  /\ isPerformingWork = FALSE
  /\ isHostCallbackScheduled = FALSE
  /\ isMessageLoopRunning = FALSE
  /\ isHostTimeoutScheduled = FALSE
  /\ taskTimeoutID = -1
  /\ portMessages = 0
  /\ hostTimers = {}
  /\ pc = "idle"
  /\ currentTime = -1
  /\ previousPriorityLevel = NoPriority
  /\ sliceStartTime = -1
  /\ didUserCallbackTimeout = FALSE
  /\ callback = "null"
  /\ ticks = 0
  /\ contCount = 0
  /\ runLog = <<>>
  /\ cancelReq = {}
  /\ cancelThrew = FALSE
  /\ promotions = <<>>
  /\ advancedAt = -1
  /\ lastExit = "none"
  /\ sliceInvoked = 0
  /\ op = Op("none", NULL)

\* The clock moves on: between host callbacks, or while a body runs.
Tick(d) ==
  /\ ticks < MaxTicks
  /\ now' = now + d
  /\ ticks' = ticks + 1
  /\ UNCHANGED <<tasks, taskQueue, timerQueue, taskIdCounter, currentTask,
                 currentPriorityLevel, startTime, isPerformingWork,
                 isHostCallbackScheduled, isMessageLoopRunning,
                 isHostTimeoutScheduled, taskTimeoutID, portMessages, hostTimers,
                 pc, currentTime, previousPriorityLevel, sliceStartTime,
                 didUserCallbackTimeout, callback, contCount, runLog,
                 cancelReq, promotions, lastExit, sliceInvoked>>
  /\ advancedAt' = -1
  /\ cancelThrew' = FALSE
  /\ op' = Op("getCurrentTime", NULL)

\* scheduleCallback(priorityLevel, callback, {delay}), from host code or from
\* a running body.
Schedule(priorityLevel, delay) ==
  /\ LET s == scheduleCallback(S, priorityLevel, delay)
     IN /\ Set(s)
        /\ runLog' = IF Admitted(s) THEN <<>> ELSE runLog
  /\ cancelThrew' = FALSE
  /\ op' = Op("scheduleCallback", NULL)
  /\ UNCHANGED <<now, startTime, pc, ticks, contCount, cancelReq, lastExit,
                 sliceInvoked>>

ScheduleCallback(priorityLevel, delay) ==
  /\ taskIdCounter < MaxTasks
  /\ Schedule(priorityLevel, delay)

\* scheduleCallback(priorityLevel, callback), without options.
ScheduleReady(priorityLevel) ==
  /\ taskIdCounter < MaxReadyTasks
  /\ Schedule(priorityLevel, 0)

\* cancelCallback(), called by someone who means to cancel `target`.  The
\* function has no parameter: it dereferences currentTask, and raises a
\* TypeError when currentTask is null.
CancelCallback(target) ==
  /\ IF currentTask = NULL
     THEN /\ cancelThrew' = TRUE
          /\ UNCHANGED <<tasks>>
     ELSE /\ tasks' = cancelCallback(S).tasks
          /\ cancelThrew' = FALSE
  /\ cancelReq' = IF target # currentTask
                  THEN Queued(S, cancelReq \cup {target})
                  ELSE cancelReq
  /\ advancedAt' = -1
  /\ op' = Op("cancelCallback", target)
  /\ UNCHANGED <<now, taskQueue, timerQueue, taskIdCounter, currentTask,
                 currentPriorityLevel, startTime, isPerformingWork,
                 isHostCallbackScheduled, isMessageLoopRunning,
                 isHostTimeoutScheduled, taskTimeoutID, portMessages, hostTimers,
                 pc, currentTime, previousPriorityLevel, sliceStartTime,
                 didUserCallbackTimeout, callback, ticks, contCount, runLog,
                 promotions, lastExit, sliceInvoked>>

\* The host delivers a port message: performWorkUntilDeadline, up to the
\* first body invocation or, when no body is invoked, to its end.
PerformWorkUntilDeadline ==
  /\ pc = "idle"
  /\ portMessages > 0
  /\ IF isMessageLoopRunning
     THEN LET s0 == [S EXCEPT !.portMessages = @ - 1, !.sliceStartTime = now]
              s1 == workLoop(flushWorkEnter(s0), now)
              s2 == IF s1.exit = "invoke" THEN s1 ELSE EndSlice(s1)
          IN /\ Set(s2)
             /\ pc' = IF s1.exit = "invoke" THEN "inBody" ELSE "idle"
             /\ LoopHistory(s2, 0)
     ELSE /\ Set([S EXCEPT !.portMessages = @ - 1])
          /\ UNCHANGED <<pc, runLog, cancelReq, lastExit, sliceInvoked>>
  /\ cancelThrew' = FALSE
  /\ op' = Op("performWorkUntilDeadline", NULL)
  /\ UNCHANGED <<now, startTime, ticks, contCount>>

\* The running body returns nothing (or a non-function): the loop goes on.
BodyReturns ==
  /\ pc = "inBody"
  /\ LET s1 == workLoopReturned(S)
         s2 == IF s1.exit = "invoke" THEN s1 ELSE EndSlice(s1)
     IN /\ Set(s2)
        /\ pc' = IF s1.exit = "invoke" THEN "inBody" ELSE "idle"
        /\ LoopHistory(s2, sliceInvoked)
  /\ cancelThrew' = FALSE
  /\ op' = Op("return", NULL)
  /\ UNCHANGED <<now, startTime, ticks, contCount>>

\* The running body returns a continuation: workLoop returns true.
BodyReturnsContinuation ==
  /\ pc = "inBody"
  /\ contCount < MaxConts
  /\ contCount' = contCount + 1
  /\ LET s2 == EndSlice(workLoopContinuation(S))
     IN /\ Set(s2)
        /\ LoopHistory(s2, sliceInvoked)
  /\ pc' = "idle"
  /\ cancelThrew' = FALSE
  /\ op' = Op("continuation", NULL)
  /\ UNCHANGED <<now, startTime, ticks>>

\* The running body throws: nothing catches it, the two finally blocks run
\* and the error leaves performWorkUntilDeadline.
BodyThrows ==
  /\ pc = "inBody"
  /\ LET s2 == EndSlice([S EXCEPT !.exit = "throw"])
     IN /\ Set(s2)
        /\ LoopHistory(s2, sliceInvoked)
  /\ pc' = "idle"
  /\ cancelThrew' = FALSE
  /\ op' = Op("throw", NULL)
  /\ UNCHANGED <<now, startTime, ticks, contCount>>

\* The host fires an outstanding timer, at or after its due time.
HandleTimeout(t) ==
  /\ pc = "idle"
  /\ t \in hostTimers
  /\ t.due <= now
  /\ LET s == handleTimeout([S EXCEPT !.hostTimers = @ \ {t}], now)
     IN /\ Set(s)
        /\ runLog' = IF Admitted(s) THEN <<>> ELSE runLog
  /\ cancelThrew' = FALSE
  /\ op' = Op("handleTimeout", NULL)
  /\ UNCHANGED <<now, startTime, pc, ticks, contCount, cancelReq, lastExit,
                 sliceInvoked>>

Next ==
  \/ \E d \in TickSteps : Tick(d)
  \/ \E p \in PriorityInputs, d \in DelayInputs : ScheduleCallback(p, d)
  \/ \E target \in (0..(taskIdCounter - 1)) \cup {NULL} : CancelCallback(target)
  \/ PerformWorkUntilDeadline
  \/ BodyReturns
  \/ BodyReturnsContinuation
  \/ BodyThrows
  \/ \E t \in hostTimers : HandleTimeout(t)

Spec == Init /\ [][Next]_vars

\* Tasks are scheduled without a delay only: the ready queue alone is in use.
NextReady ==
  \/ \E d \in TickSteps : Tick(d)
  \/ \E p \in PriorityInputs : ScheduleReady(p)
  \/ PerformWorkUntilDeadline
  \/ BodyReturns
  \/ BodyReturnsContinuation
  \/ BodyThrows

SpecReady == Init /\ [][NextReady]_vars

\* ---------------------------------------------------------------- claims
Ids == DOMAIN tasks
Ready == Members(taskQueue)
Delayed == Members(timerQueue)

\* a runs no later than b in deadline order: by expirationTime, then by id.
DeadlineOrder(a, b) ==
  \/ tasks[a].expirationTime < tasks[b].expirationTime
  \/ tasks[a].expirationTime = tasks[b].expirationTime /\ a <= b

\* C1: with zero-delay scheduling only, the bodies invoked since the last
\* admission to the ready queue were invoked in non-decreasing expirationTime,
\* tasks of equal expirationTime in ascending id.
C1_DrainOrder ==
  \A i \in 1..(Len(runLog) - 1) : DeadlineOrder(runLog[i], runLog[i + 1])

\* Idle, Immediate, Normal scheduled in that order at one instant have run as
\* Immediate, Normal, Idle.
C1_Witness ==
  /\ taskIdCounter = 3
  /\ tasks[0].priorityLevel = IdlePriority
  /\ tasks[1].priorityLevel = ImmediatePriority
  /\ tasks[2].priorityLevel = NormalPriority
  /\ tasks[0].startTime = tasks[1].startTime
  /\ tasks[1].startTime = tasks[2].startTime
  /\ runLog = <<1, 2, 0>>

\* C2: a task whose cancellation was requested while it was queued and not
\* running is never the task whose body runs.
C2_CancelledNeverRuns ==
  pc = "inBody" => currentTask \notin cancelReq

\* C3: a task is in the ready queue, or running, only once the clock has
\* reached its startTime; a call of advanceTimers leaves no task in the delay
\* queue whose startTime its argument has reached; a task is promoted at most
\* once, and not at all while it is in the delay queue.
C3_DelayedPromotion ==
  /\ \A id \in Ready : tasks[id].startTime <= now
  /\ pc = "inBody" => tasks[currentTask].startTime <= now
  /\ advancedAt # -1 => \A id \in Delayed : tasks[id].startTime > advancedAt
  /\ \A id \in Ids : promotions[id] <= 1
  /\ \A id \in Delayed : promotions[id] = 0

\* A promoted task is running.
C3_Witness ==
  /\ pc = "inBody"
  /\ promotions[currentTask] = 1

\* C4: while a body runs, shouldYield() is true exactly when the time since
\* the start of the current slice has reached the frame budget.
C4_YieldFromSliceStart ==
  pc = "inBody" => (shouldYieldToHost <=> now - sliceStartTime >= frameInterval)

\* C5: at most one host timer is outstanding.
C5_OneTimer ==
  Cardinality(hostTimers) <= 1

\* C6: at most one invocation of performWorkUntilDeadline is posted or
\* running.
C6_OneWorkLoop ==
  portMessages + (IF pc = "inBody" THEN 1 ELSE 0) <= 1

\* A ready task was scheduled from inside the running body, after the slice
\* began, and nothing was posted.
C6_Witness ==
  /\ pc = "inBody"
  /\ portMessages = 0
  /\ \E id \in Ready : promotions[id] = 0 /\ tasks[id].startTime > sliceStartTime

\* The step in which a body throws.
ThrowStep == pc = "inBody" /\ pc' = "idle" /\ lastExit' = "throw"

\* C7: when a body throws, the error leaves the entry point, currentTask is
\* none, currentPriorityLevel is what it was before the slice and
\* isPerformingWork is false; the task is left a tombstone, the other tasks
\* and the ready queue are untouched and the entry point is posted again; and
\* a tombstone that is not running never gets a body back.
C7_ThrowCleanup ==
  [][/\ ThrowStep =>
          /\ currentTask' = NULL
          /\ currentPriorityLevel' = previousPriorityLevel
          /\ ~isPerformingWork'
          /\ tasks'[currentTask].callback = "null"
          /\ \A id \in Ids \ {currentTask} : tasks'[id] = tasks[id]
          /\ taskQueue' = taskQueue
          /\ portMessages' = 1
          /\ isMessageLoopRunning'
     /\ \A id \in Ids :
          (tasks[id].callback = "null" /\ ~(pc = "inBody" /\ currentTask = id))
            => tasks'[id].callback = "null"]_vars

\* A body has thrown; its tombstone heads the ready queue, a live task waits
\* behind it and the entry point is posted.
C7_Witness ==
  /\ pc = "idle"
  /\ lastExit = "throw"
  /\ portMessages = 1
  /\ Len(taskQueue) = 2
  /\ tasks[taskQueue[1]].callback = "null"
  /\ tasks[taskQueue[2]].callback = "fn"

\* The step in which a body returns a continuation.
ContinuationStep == pc = "inBody" /\ pc' = "idle" /\ lastExit' = "cont"

\* The first slice after one that ended with a continuation: it is the next
\* step to change lastExit or to enter a body.
SliceAfterContinuation ==
  /\ pc = "idle"
  /\ lastExit = "cont"
  /\ (pc' = "inBody" \/ lastExit' # "cont")

\* C8: when a body returns a continuation the slice ends at once with more
\* work to do and the entry point posted; the task keeps its id, its
\* expirationTime and its place in the ready queue, with the continuation as
\* its body; and the next slice invokes the head of the ready queue, the
\* task that is first in deadline order.
C8_ContinuationRunsNext ==
  [][/\ ContinuationStep =>
          /\ taskQueue' = taskQueue
          /\ currentTask \in Ready
          /\ tasks'[currentTask] = [tasks[currentTask] EXCEPT !.callback = "cont"]
          /\ portMessages' = 1
     /\ SliceAfterContinuation =>
          /\ pc' = "inBody"
          /\ currentTask' = peek(taskQueue')
          /\ \A id \in Members(taskQueue') : DeadlineOrder(currentTask', id)]_vars

\* C9: no call of cancelCallback fails.
C9_CancelNeverFails ==
  ~cancelThrew

\* C10: the didTimeout a body is given is true exactly when its task's
\* expirationTime is at or before the clock at the invocation (currentTime is
\* read from the clock on the line before the call).
C10_DidTimeoutAtInvocation ==
  pc = "inBody" =>
    (didUserCallbackTimeout <=> tasks[currentTask].expirationTime <= currentTime)

\* C11: getCurrentPriorityLevel() is the priority of the running task for as
\* long as its body runs, and NoPriority whenever no work loop is running.
C11_PriorityLevel ==
  /\ pc = "inBody" => getCurrentPriorityLevel = tasks[currentTask].priorityLevel
  /\ pc = "idle" => getCurrentPriorityLevel = NoPriority

\* No work loop is running after a slice that ran an Immediate task and then
\* a Normal one whose body threw.
C11_Witness ==
  /\ pc = "idle"
  /\ op.name = "throw"
  /\ sliceInvoked = 2
  /\ \E id \in Ids : tasks[id].priorityLevel = ImmediatePriority
  /\ \E id \in Ids : tasks[id].priorityLevel = NormalPriority
  /\ getCurrentPriorityLevel = NoPriority

\* The step in which the drain loop breaks off with the head unpopped: at the
\* first check of a slice, or at the check after a body has returned.
YieldStep ==
  /\ \/ op'.name = "performWorkUntilDeadline" /\ isMessageLoopRunning
     \/ op'.name = "return"
  /\ pc' = "idle"
  /\ lastExit' = "more"

\* The loop's currentTime and the start of the slice, at the check a loop
\* step ends with.
LoopTimeAtCheck ==
  IF op'.name = "performWorkUntilDeadline" THEN now ELSE currentTime
SliceStartAtCheck ==
  IF op'.name = "performWorkUntilDeadline" THEN now ELSE sliceStartTime

\* C12: the drain loop breaks off only when the head of the ready queue has
\* expirationTime > currentTime and the time since the start of the slice has
\* reached the frame budget; an overdue head is never left behind.
C12_YieldOnlyOverBudget ==
  [][YieldStep =>
       /\ taskQueue' # <<>>
       /\ tasks'[peek(taskQueue')].expirationTime > LoopTimeAtCheck
       /\ now - SliceStartAtCheck >= frameInterval]_vars

\* The step in which a slice begins.
SliceStep == op'.name = "performWorkUntilDeadline" /\ isMessageLoopRunning

\* C13: a slice that begins with a live task that is not overdue at the head
\* of the ready queue invokes a body; and after a body has returned the loop
\* goes on to the next task while the slice is younger than the frame budget.
C13_SliceRunsATask ==
  [][/\ (/\ SliceStep
         /\ taskQueue # <<>>
         /\ tasks[peek(taskQueue)].callback # "null"
         /\ tasks[peek(taskQueue)].expirationTime > now) => pc' = "inBody"
     /\ (/\ op'.name = "return"
         /\ taskQueue' # <<>>
         /\ now - sliceStartTime < frameInterval) => pc' = "inBody"]_vars

\* C14: while the delay queue holds a task, every outstanding host timer is
\* due at the smallest startTime in the delay queue.
C14_TimerAtMinimum ==
  timerQueue # <<>> =>
    \A t \in hostTimers : t.due = tasks[peek(timerQueue)].startTime

\* The step in which a slice ends: the work loop has left the entry point.
SliceEndStep ==
  /\ \/ SliceStep
     \/ op'.name \in {"return", "continuation", "throw"}
  /\ pc' = "idle"

\* C15: while no body runs, a non-empty ready queue has an invocation of the
\* entry point posted, and a non-empty delay queue with an empty ready queue
\* and nothing posted has a host timer outstanding; a slice that ends posts
\* the entry point again exactly when it leaves the ready queue non-empty,
\* and otherwise, when the delay queue is non-empty, has armed a timer.
C15_NoWorkStranded ==
  /\ [](pc = "idle" =>
          /\ taskQueue # <<>> => portMessages > 0
          /\ (taskQueue = <<>> /\ portMessages = 0 /\ timerQueue # <<>>)
               => hostTimers # {})
  /\ [][SliceEndStep =>
          /\ portMessages' > 0 <=> taskQueue' # <<>>
          /\ (portMessages' = 0 /\ timerQueue' # <<>>) =>
               /\ hostTimers' # hostTimers
               /\ \E t \in hostTimers' : t.handle = taskTimeoutID']_vars

\* A slice has drained the ready queue and armed a timer for the task that
\* waits in the delay queue.
C15_Witness ==
  /\ pc = "idle"
  /\ op.name = "return"
  /\ taskQueue = <<>>
  /\ portMessages = 0
  /\ timerQueue # <<>>
  /\ \E t \in hostTimers : t.handle = taskTimeoutID

\* The number of times id occurs in queue q.
Occurrences(q, id) == Cardinality({i \in 1..Len(q) : q[i] = id})

\* What holds task id: the delay queue, the ready queue (an entry whose body
\* is not running), the running body, or nothing any more.
Holders(id) ==
  LET executing == pc = "inBody" /\ currentTask = id
  IN {h \in {"delay", "ready", "executing", "discarded"} :
        \/ h = "delay" /\ id \in Delayed
        \/ h = "ready" /\ id \in Ready /\ ~executing
        \/ h = "executing" /\ executing
        \/ h = "discarded" /\ id \notin Ready \cup Delayed /\ ~executing}

\* C16: every admitted task has exactly one holder and occurs at most once in
\* the two queues together; a new task enters a queue, a task that has left
\* the queues never enters one again, and a task that has been in the ready
\* queue never enters the delay queue.
C16_OneHolder ==
  /\ [](\A id \in Ids :
          /\ Cardinality(Holders(id)) = 1
          /\ Occurrences(timerQueue, id) + Occurrences(taskQueue, id) <= 1)
  /\ [][/\ \A id \in DOMAIN tasks' \ Ids : id \in Members(taskQueue' \o timerQueue')
        /\ \A id \in Ids :
             /\ id \notin Ready \cup Delayed
                  => id \notin Members(taskQueue' \o timerQueue')
             /\ id \in Ready => id \notin Members(timerQueue')]_vars

\* A task has finished and left the queues while another waits in the delay
\* queue.
C16_Witness ==
  /\ pc = "idle"
  /\ \E id \in Ids : Holders(id) = {"discarded"} /\ promotions[id] = 1
  /\ \E id \in Ids : Holders(id) = {"delay"}

\* C17: a task in the delay queue has sortIndex = startTime and a task in the
\* ready queue has sortIndex = expirationTime; expirationTime is startTime
\* plus the timeout of the priority, and neither they nor the priority ever
\* change; sortIndex changes only in the step that promotes the task, the
\* first and only time, and becomes expirationTime.
C17_SortIndex ==
  /\ [](/\ \A id \in Delayed : tasks[id].sortIndex = tasks[id].startTime
        /\ \A id \in Ready : tasks[id].sortIndex = tasks[id].expirationTime
        /\ \A id \in Ids :
             tasks[id].expirationTime =
               tasks[id].startTime + getTimeoutForPriority(tasks[id].priorityLevel))
  /\ [][\A id \in Ids :
          /\ tasks'[id].startTime = tasks[id].startTime
          /\ tasks'[id].expirationTime = tasks[id].expirationTime
          /\ tasks'[id].priorityLevel = tasks[id].priorityLevel
          /\ tasks'[id].sortIndex # tasks[id].sortIndex =>
               /\ id \in Delayed
               /\ id \in Members(taskQueue')
               /\ promotions[id] = 0
               /\ promotions'[id] = 1
               /\ tasks'[id].sortIndex = tasks[id].expirationTime]_vars

\* A promoted task waits in the ready queue, keyed by its expirationTime,
\* while another waits in the delay queue, keyed by its startTime.
C17_Witness ==
  /\ \E id \in Ready :
       /\ promotions[id] = 1
       /\ tasks[id].sortIndex = tasks[id].expirationTime
       /\ tasks[id].sortIndex # tasks[id].startTime
  /\ \E id \in Delayed : tasks[id].sortIndex = tasks[id].startTime

\* A step of the drain loop: it ends with a read of the head of the ready
\* queue (a pick, a yield or an empty queue) or with a continuation.
LoopStep == SliceStep \/ op'.name \in {"return", "continuation"}

\* C18: every step of the drain loop has promoted with the loop's current
\* time, at the start of the slice and after a body has returned, so at the
\* read of the head it ends with (also when tombstoned heads were removed on
\* the way) no live task whose startTime the loop's current time has reached
\* is in the delay queue.
C18_PromotedBeforePick ==
  [][LoopStep =>
       /\ advancedAt' = LoopTimeAtCheck
       /\ \A id \in Members(timerQueue') :
            tasks'[id].callback # "null" => tasks'[id].startTime > LoopTimeAtCheck]_vars

\* A slice has removed the tombstone a throwing body left at the head and
\* picked a task it promoted from the delay queue.
C18_Witness ==
  /\ pc = "inBody"
  /\ op.name = "performWorkUntilDeadline"
  /\ lastExit = "throw"
  /\ sliceInvoked = 1
  /\ promotions[currentTask] = 1
  /\ \E id \in Ids : Holders(id) = {"discarded"}

\* The step in which cancelCallback is called, by someone who means op'.target.
CancelStep == op'.name = "cancelCallback"

\* C19: a call of cancelCallback changes nothing but the callback of the task
\* it is meant for: both queues, every other task, every field of the task
\* but its callback, the flags, the posted messages and the timers stay as
\* they are; and a task leaves a queue only ahead of every task that stays.
C19_CancelFrame ==
  [][/\ CancelStep =>
          /\ taskQueue' = taskQueue
          /\ timerQueue' = timerQueue
          /\ DOMAIN tasks' = Ids
          /\ \A id \in Ids :
               IF id = op'.target
               THEN tasks'[id] = [tasks[id] EXCEPT !.callback = tasks'[id].callback]
               ELSE tasks'[id] = tasks[id]
          /\ UNCHANGED <<isHostCallbackScheduled, isMessageLoopRunning,
                         isHostTimeoutScheduled, isPerformingWork, taskTimeoutID,
                         hostTimers, portMessages, currentTask,
                         currentPriorityLevel, taskIdCounter>>
     /\ \A id \in Ready \ Members(taskQueue') :
          \A other \in Ready \cap Members(taskQueue') : compare(tasks, id, other)
     /\ \A id \in Delayed \ Members(timerQueue') :
          \A other \in Delayed \cap Members(timerQueue') : compare(tasks, id, other)]_vars

\* cancelCallback was called from a running body for a promoted task that
\* waits in the ready queue, with a host timer outstanding.
C19_Witness ==
  /\ pc = "inBody"
  /\ op.name = "cancelCallback"
  /\ op.target \in Ready \ {currentTask}
  /\ promotions[op.target] = 1
  /\ hostTimers # {}

====
